---- MODULE Spec2Model ----
(***************************************************************************)
(* ISBN Scanner (src/app.js): the profile / book persistence model in      *)
(* localStorage and the scan -> lookup -> persist -> sync pipeline         *)
(* (handleISBN), together with the UI handlers that interleave with it.    *)
(*                                                                         *)
(* JavaScript is single threaded and run-to-completion: every action below *)
(* is one handler, or the part of the async function handleISBN that runs  *)
(* between two awaits.                                                     *)
(***************************************************************************)
EXTENDS Integers, Sequences, FiniteSets, TLC

\* ---------------------------------------------------------------- bounds

\* Number of profiles createProfile may create in one behaviour (ids 1..MaxProfiles).
MaxProfiles == 2

\* Number of book keys the Book Store functions are called on directly (SpecBooks).
MaxKeys == 2

\* ---------------------------------------------------------------- values

\* Identifiers fed to the pipeline (both pass the /^\d{9}[\dX]$|^\d{13}$/ filter).
ISBNs == {"0316769487", "9780134190440"}

\* Library names typed into the profile modal (non-empty after trim).
Names == {"Home"}

\* The Apps Script URL field of a profile: '' is "no sync endpoint".
ScriptUrls == {"", "https://script.example/exec"}

\* Values of new Date().toISOString() seen by a lookup.
Times == {"2026-01-01T00:00:00.000Z"}

\* A property that is missing from a provider's JSON (JavaScript undefined).
Missing == "<undefined>"

\* localStorage.getItem(ACTIVE_KEY) || '' : the empty string is id 0.
NoId == 0

\* Profile ids are p_<time>_<random>; the n-th created profile has id n.
ProfileIds == 1..MaxProfiles

\* Keys isbn_books_<id> that may be read or written, '' included.
BookKeys == 0..(MaxProfiles + 1)

\* activeProfile === null
null == [id |-> NoId, name |-> "", settings |-> [scriptUrl |-> ""]]

VARIABLES
    profiles,        \* localStorage[PROFILES_KEY]: sequence of profiles
    activeId,        \* localStorage[ACTIVE_KEY]
    store,           \* localStorage[booksKey(id)] for every id
    nextId,          \* source of fresh profile ids
    activeProfile,   \* let activeProfile
    books,           \* let books
    syncStatuses,    \* let syncStatuses
    processing,      \* let processing
    deleteConfirmId, \* let deleteConfirmId
    pc,              \* where the one handleISBN run past the gate is suspended
    isbn,            \* handleISBN's parameter of that run
    scanStartId,     \* activeProfile.id when that run passed the gate (while looking up)
    syncStartId,     \* activeProfile.id when that run dispatched its sync
    dropped,         \* the gate dropped an arrival since that run's last await
    notice,          \* the warning or error toast of handleISBN's last step, if it was one
    lastCall         \* the last direct call of a function (SpecProfiles, SpecBooks, SpecLookup)

storage == <<profiles, activeId, store, nextId>>
memory == <<activeProfile, books, syncStatuses, processing, deleteConfirmId>>
run == <<pc, isbn, scanStartId, syncStartId, dropped>>
vars == <<profiles, activeId, store, nextId, activeProfile, books, syncStatuses,
          processing, deleteConfirmId, pc, isbn, scanStartId, syncStartId, dropped,
          notice, lastCall>>

\* ---------------------------------------------------------------- helpers

\* x || ''
OrEmpty(x) == IF x = Missing THEN "" ELSE x

RECURSIVE Join(_)
\* Array.prototype.join(', ')
Join(s) ==
    IF s = <<>> THEN ""
    ELSE IF Len(s) = 1 THEN s[1]
    ELSE s[1] \o ", " \o Join(Tail(s))

\* Array.prototype.slice(0, n)
Slice0(s, n) == IF Len(s) <= n THEN s ELSE SubSeq(s, 1, n)

ProfileIdsOf(ps) == {ps[i].id : i \in DOMAIN ps}
IsbnsOf(bs) == {bs[i].isbn : i \in DOMAIN bs}

\* The characters of a string.
Chars(text) == [i \in 1..Len(text) |-> SubSeq(text, i, i)]

\* \d
Digits == {"0", "1", "2", "3", "4", "5", "6", "7", "8", "9"}

\* \s, as far as a text field or a barcode can hold it
Whitespace == {" ", "\t"}

\* ---------------------------------------------------------------- storage

loadProfiles == profiles

getActiveId == activeId

setActiveId(id) == activeId' = id

\* Mutant of getActiveProfile: the `|| all[0]` fallback is missing.
getActiveProfile_NoFallback ==
    LET all == loadProfiles IN
    IF \E i \in DOMAIN all : all[i].id = getActiveId
    THEN all[CHOOSE i \in DOMAIN all : all[i].id = getActiveId]
    ELSE null

getActiveProfile ==
    LET all == loadProfiles IN
    IF Len(all) = 0 THEN null
    ELSE IF \E i \in DOMAIN all : all[i].id = getActiveId
         THEN all[CHOOSE i \in DOMAIN all :
                    /\ all[i].id = getActiveId
                    /\ \A j \in DOMAIN all : all[j].id = getActiveId => i <= j]
         ELSE all[1]

\* Mutant of createProfile: the setActiveId(p.id) line is missing.
createProfile_NoActivate(name, settings) ==
    LET p == [id |-> nextId, name |-> name, settings |-> settings] IN
    /\ profiles' = Append(loadProfiles, p)
    /\ UNCHANGED activeId
    /\ nextId' = nextId + 1

createProfile(name, settings) ==
    LET p == [id |-> nextId, name |-> name, settings |-> settings] IN
    /\ profiles' = Append(loadProfiles, p)
    /\ setActiveId(p.id)
    /\ nextId' = nextId + 1

updateProfile(id, name, settings) ==
    profiles' = [i \in DOMAIN profiles |->
                    IF profiles[i].id = id
                    THEN [profiles[i] EXCEPT !.name = name, !.settings = settings]
                    ELSE profiles[i]]

\* Mutant of deleteProfile: the profile's books key is not removed.
deleteProfile_KeepBooks(id) ==
    LET Other(p) == p.id # id
        all == SelectSeq(loadProfiles, Other) IN
    /\ profiles' = all
    /\ UNCHANGED store
    /\ IF getActiveId = id
       THEN setActiveId(IF Len(all) > 0 THEN all[1].id ELSE NoId)
       ELSE UNCHANGED activeId

deleteProfile(id) ==
    LET Other(p) == p.id # id
        all == SelectSeq(loadProfiles, Other) IN
    /\ profiles' = all
    /\ store' = [store EXCEPT ![id] = <<>>]
    /\ IF getActiveId = id
       THEN setActiveId(IF Len(all) > 0 THEN all[1].id ELSE NoId)
       ELSE UNCHANGED activeId

loadBooks(id) == store[id]

\* Mutant of saveBook: push instead of unshift.
saveBook_Push(book, id) ==
    LET bs == loadBooks(id) IN
    IF ~ \E i \in DOMAIN bs : bs[i].isbn = book.isbn
    THEN store' = [store EXCEPT ![id] = Append(bs, book)]
    ELSE UNCHANGED store

\* Mutant of saveBook: the record is prepended without the duplicate test.
saveBook_NoDedup(book, id) == store' = [store EXCEPT ![id] = <<book>> \o loadBooks(id)]

saveBook(book, id) ==
    LET bs == loadBooks(id) IN
    IF ~ \E i \in DOMAIN bs : bs[i].isbn = book.isbn
    THEN store' = [store EXCEPT ![id] = <<book>> \o bs]
    ELSE UNCHANGED store

removeBook(code, id) ==
    LET Other(b) == b.isbn # code IN
    store' = [store EXCEPT ![id] = SelectSeq(loadBooks(id), Other)]

clearBooks(id) == store' = [store EXCEPT ![id] = <<>>]

isScanned(code, id) == \E i \in DOMAIN loadBooks(id) : loadBooks(id)[i].isbn = code

\* ---------------------------------------------------------------- lookup

\* volumeInfo of a Google Books item. A list that is missing and a list that is
\* empty both join to '', so a missing list is the empty sequence here.
NoVolumeInfo ==
    [title |-> Missing, authors |-> <<>>, publisher |-> Missing,
     publishedDate |-> Missing, pageCount |-> Missing, categories |-> <<>>,
     description |-> Missing, thumbnail |-> [scheme |-> Missing, rest |-> Missing]]

GoogleVolumeInfo ==
    [title |-> "The Go Programming Language",
     authors |-> <<"Alan A. A. Donovan", "Brian W. Kernighan">>,
     publisher |-> "Addison-Wesley", publishedDate |-> "2015-11-16",
     pageCount |-> "400", categories |-> <<"Computers">>,
     description |-> "The authoritative resource",
     thumbnail |-> [scheme |-> "http:", rest |-> "//books.google.com/c?id=1"]]

\* What fetch + r.json() of the Google Books request gives: an exception
\* (network or parse), or a body with totalItems and items[0].volumeInfo.
GoogleThrows == [status |-> "throw", totalItems |-> 0, info |-> NoVolumeInfo]
GoogleNoMatch == [status |-> "ok", totalItems |-> 0, info |-> NoVolumeInfo]
GoogleMatch == [status |-> "ok", totalItems |-> 1, info |-> GoogleVolumeInfo]
GoogleResponses == {GoogleThrows, GoogleNoMatch, GoogleMatch}

\* d['ISBN:<isbn>'] of an Open Library response.
NoOpenLibraryData ==
    [title |-> Missing, authors |-> <<>>, publishers |-> <<>>,
     publish_date |-> Missing, number_of_pages |-> Missing, subjects |-> <<>>,
     cover_medium |-> Missing]

OpenLibraryData ==
    [title |-> "The Catcher in the Rye", authors |-> <<"J. D. Salinger">>,
     publishers |-> <<"Little, Brown">>, publish_date |-> "1991",
     number_of_pages |-> "277",
     subjects |-> <<"Fiction", "Runaway teenagers", "New York", "Classics">>,
     cover_medium |-> "https://covers.openlibrary.org/b/id/1-M.jpg"]

OpenLibraryThrows == [status |-> "throw", hasKey |-> FALSE, data |-> NoOpenLibraryData]
OpenLibraryNoData == [status |-> "ok", hasKey |-> FALSE, data |-> NoOpenLibraryData]
OpenLibraryMatch == [status |-> "ok", hasKey |-> TRUE, data |-> OpenLibraryData]
OpenLibraryResponses == {OpenLibraryThrows, OpenLibraryNoData, OpenLibraryMatch}

\* info.imageLinks?.thumbnail?.replace('http:', 'https:') || ''
secureCover(thumbnail) ==
    IF thumbnail.scheme = Missing THEN ""
    ELSE (IF thumbnail.scheme = "http:" THEN "https:" ELSE thumbnail.scheme)
         \o thumbnail.rest

emptyBook(code, now) ==
    [isbn |-> code, title |-> "", authors |-> "", publisher |-> "",
     publishedDate |-> "", pageCount |-> "", categories |-> "",
     description |-> "", coverUrl |-> "", scannedAt |-> now]

\* Mutant of lookupISBN: without a provider's data it resolves to a record
\* whose other fields are left undefined.
lookupISBN_NoDefaults(code, g, o, now) ==
    IF g.status = "ok" /\ g.totalItems > 0
    THEN [isbn |-> code,
          title |-> OrEmpty(g.info.title),
          authors |-> Join(g.info.authors),
          publisher |-> OrEmpty(g.info.publisher),
          publishedDate |-> OrEmpty(g.info.publishedDate),
          pageCount |-> OrEmpty(g.info.pageCount),
          categories |-> Join(g.info.categories),
          description |-> OrEmpty(g.info.description),
          coverUrl |-> secureCover(g.info.thumbnail),
          scannedAt |-> now]
    ELSE IF o.status = "ok" /\ o.hasKey
    THEN [isbn |-> code,
          title |-> OrEmpty(o.data.title),
          authors |-> Join(o.data.authors),
          publisher |-> Join(o.data.publishers),
          publishedDate |-> OrEmpty(o.data.publish_date),
          pageCount |-> OrEmpty(o.data.number_of_pages),
          categories |-> Join(Slice0(o.data.subjects, 3)),
          description |-> "",
          coverUrl |-> OrEmpty(o.data.cover_medium),
          scannedAt |-> now]
    ELSE [isbn |-> code, title |-> Missing, authors |-> Missing,
          publisher |-> Missing, publishedDate |-> Missing, pageCount |-> Missing,
          categories |-> Missing, description |-> Missing, coverUrl |-> Missing,
          scannedAt |-> now]

\* The record lookupISBN resolves to, given what the two providers answer.
lookupISBN(code, g, o, now) ==
    IF g.status = "ok" /\ g.totalItems > 0
    THEN [isbn |-> code,
          title |-> OrEmpty(g.info.title),
          authors |-> Join(g.info.authors),
          publisher |-> OrEmpty(g.info.publisher),
          publishedDate |-> OrEmpty(g.info.publishedDate),
          pageCount |-> OrEmpty(g.info.pageCount),
          categories |-> Join(g.info.categories),
          description |-> OrEmpty(g.info.description),
          coverUrl |-> secureCover(g.info.thumbnail),
          scannedAt |-> now]
    ELSE IF o.status = "ok" /\ o.hasKey
    THEN [isbn |-> code,
          title |-> OrEmpty(o.data.title),
          authors |-> Join(o.data.authors),
          publisher |-> Join(o.data.publishers),
          publishedDate |-> OrEmpty(o.data.publish_date),
          pageCount |-> OrEmpty(o.data.number_of_pages),
          categories |-> Join(Slice0(o.data.subjects, 3)),
          description |-> "",
          coverUrl |-> OrEmpty(o.data.cover_medium),
          scannedAt |-> now]
    ELSE emptyBook(code, now)

\* What the two providers hold: Google Books knows 9780134190440 only, Open
\* Library knows 0316769487 only, so every lookup of the pipeline is answered
\* by <<Google's response, Open Library's response>> for that identifier.
Responses(code) ==
    IF code = "9780134190440"
    THEN {<<GoogleMatch, OpenLibraryNoData>>}
    ELSE {<<GoogleNoMatch, OpenLibraryMatch>>}

\* ---------------------------------------------------------------- state

\* syncStatuses = {}
NoStatuses == [i \in {} |-> "pending"]

\* delete syncStatuses[code]
deleteStatus(m, code) == [i \in (DOMAIN m) \ {code} |-> m[i]]

\* syncStatuses[code] = status
setStatus(m, code, status) == (code :> status) @@ m

\* No function has been called directly: lastCall holds the function's name,
\* its id argument, its book argument or result, and how the two providers
\* answered (their responses without the book data).
NoCall ==
    [op |-> "", id |-> NoId, book |-> emptyBook("", ""),
     g |-> [status |-> "", totalItems |-> 0], o |-> [status |-> "", hasKey |-> FALSE]]

\* DOMContentLoaded on empty storage (migrateLegacy finds nothing).
Init ==
    /\ profiles = <<>>
    /\ activeId = NoId
    /\ store = [k \in BookKeys |-> <<>>]
    /\ nextId = 1
    /\ activeProfile = null
    /\ books = <<>>
    /\ syncStatuses = NoStatuses
    /\ processing = FALSE
    /\ deleteConfirmId = NoId
    /\ pc = "idle"
    /\ isbn = ""
    /\ scanStartId = NoId
    /\ syncStartId = NoId
    /\ dropped = FALSE
    /\ notice = ""
    /\ lastCall = NoCall

\* ---------------------------------------------------------------- pipeline

\* Mutant of handleISBN: the isScanned test is missing.
handleISBN_NoDuplicateTest(code) ==
    /\ UNCHANGED <<storage, activeProfile, books, syncStatuses, deleteConfirmId,
                   syncStartId, lastCall>>
    /\ IF processing
       THEN /\ UNCHANGED <<processing, pc, isbn, scanStartId>>
            /\ dropped' = TRUE
            /\ notice' = ""
       ELSE IF activeProfile = null
       THEN /\ UNCHANGED <<processing, pc, isbn, scanStartId, dropped>>
            /\ notice' = "Please set up a library first"
       ELSE /\ processing' = TRUE
            /\ pc' = "lookup"
            /\ isbn' = code
            /\ scanStartId' = activeProfile.id
            /\ notice' = ""
            /\ UNCHANGED dropped

\* Mutant of handleISBN: the `if (processing) return` line is missing.
handleISBN_NoGate(code) ==
    /\ UNCHANGED <<storage, activeProfile, books, syncStatuses, deleteConfirmId,
                   syncStartId, lastCall>>
    /\ IF activeProfile = null
       THEN /\ UNCHANGED <<processing, pc, isbn, scanStartId, dropped>>
            /\ notice' = "Please set up a library first"
       ELSE IF isScanned(code, activeProfile.id)
       THEN /\ UNCHANGED <<processing, pc, isbn, scanStartId, dropped>>
            /\ notice' = "Already scanned"
       ELSE /\ processing' = TRUE
            /\ pc' = "lookup"
            /\ isbn' = code
            /\ scanStartId' = activeProfile.id
            /\ notice' = ""
            /\ UNCHANGED dropped

\* handleISBN up to its first await: the gate, the two rejections and the
\* start of the lookup. Called by the scanner callback and by doManualLookup.
handleISBN(code) ==
    /\ UNCHANGED <<storage, activeProfile, books, syncStatuses, deleteConfirmId,
                   syncStartId, lastCall>>
    /\ IF processing
       THEN /\ UNCHANGED <<processing, pc, isbn, scanStartId>>
            /\ dropped' = TRUE
            /\ notice' = ""
       ELSE IF activeProfile = null
       THEN /\ UNCHANGED <<processing, pc, isbn, scanStartId, dropped>>
            /\ notice' = "Please set up a library first"
       ELSE IF isScanned(code, activeProfile.id)
       THEN /\ UNCHANGED <<processing, pc, isbn, scanStartId, dropped>>
            /\ notice' = "Already scanned"
       ELSE /\ processing' = TRUE
            /\ pc' = "lookup"
            /\ isbn' = code
            /\ scanStartId' = activeProfile.id
            /\ notice' = ""
            /\ UNCHANGED dropped

\* finally { processing = false }
release ==
    /\ processing' = FALSE
    /\ pc' = "idle"
    /\ isbn' = ""
    /\ scanStartId' = NoId
    /\ syncStartId' = NoId
    /\ dropped' = FALSE

\* Mutant of afterLookup: no finally block, an exception leaves processing set.
afterLookup_NoFinally(r, now, full) ==
    /\ pc = "lookup"
    /\ UNCHANGED <<profiles, activeId, nextId, activeProfile, deleteConfirmId, lastCall>>
    /\ LET book == lookupISBN(isbn, r[1], r[2], now) IN
       IF activeProfile = null \/ (full /\ ~ isScanned(isbn, activeProfile.id))
       THEN /\ UNCHANGED <<store, books, syncStatuses, processing>>
            /\ notice' = "Failed to look up ISBN"
            /\ pc' = "idle"
            /\ isbn' = ""
            /\ scanStartId' = NoId
            /\ syncStartId' = NoId
            /\ dropped' = FALSE
       ELSE /\ notice' = ""
            /\ saveBook(book, activeProfile.id)
            /\ books' = store'[activeProfile.id]
            /\ IF activeProfile.settings.scriptUrl # ""
               THEN /\ syncStatuses' = setStatus(syncStatuses, isbn, "pending")
                    /\ pc' = "sync"
                    /\ syncStartId' = activeProfile.id
                    /\ scanStartId' = NoId
                    /\ dropped' = FALSE
                    /\ UNCHANGED <<processing, isbn>>
               ELSE /\ UNCHANGED syncStatuses
                    /\ release

\* Mutant of afterLookup: processing is reset before the sync is awaited.
afterLookup_ReleaseEarly(r, now, full) ==
    /\ pc = "lookup"
    /\ UNCHANGED <<profiles, activeId, nextId, activeProfile, deleteConfirmId, lastCall>>
    /\ LET book == lookupISBN(isbn, r[1], r[2], now) IN
       IF activeProfile = null \/ (full /\ ~ isScanned(isbn, activeProfile.id))
       THEN /\ UNCHANGED <<store, books, syncStatuses>>
            /\ notice' = "Failed to look up ISBN"
            /\ release
       ELSE /\ notice' = ""
            /\ saveBook(book, activeProfile.id)
            /\ books' = store'[activeProfile.id]
            /\ IF activeProfile.settings.scriptUrl # ""
               THEN /\ syncStatuses' = setStatus(syncStatuses, isbn, "pending")
                    /\ pc' = "sync"
                    /\ syncStartId' = activeProfile.id
                    /\ scanStartId' = NoId
                    /\ dropped' = FALSE
                    /\ processing' = FALSE
                    /\ UNCHANGED isbn
               ELSE /\ UNCHANGED syncStatuses
                    /\ release

\* handleISBN from the moment lookupISBN settles to its next await (or its end);
\* r is <<Google's response, Open Library's response>>, full says that
\* localStorage has no room left, so that setItem throws. activeProfile is the
\* global as it is now; activeProfile.id of null throws a TypeError. The catch
\* block turns either exception into a notice.
afterLookup(r, now, full) ==
    /\ pc = "lookup"
    /\ UNCHANGED <<profiles, activeId, nextId, activeProfile, deleteConfirmId, lastCall>>
    /\ LET book == lookupISBN(isbn, r[1], r[2], now) IN
       IF activeProfile = null \/ (full /\ ~ isScanned(isbn, activeProfile.id))
       THEN /\ UNCHANGED <<store, books, syncStatuses>>
            /\ notice' = "Failed to look up ISBN"
            /\ release
       ELSE /\ notice' = ""
            /\ saveBook(book, activeProfile.id)
            /\ books' = store'[activeProfile.id]
            /\ IF activeProfile.settings.scriptUrl # ""
               THEN /\ syncStatuses' = setStatus(syncStatuses, isbn, "pending")
                    /\ pc' = "sync"
                    /\ syncStartId' = activeProfile.id
                    /\ scanStartId' = NoId
                    /\ dropped' = FALSE
                    /\ UNCHANGED <<processing, isbn>>
               ELSE /\ UNCHANGED syncStatuses
                    /\ release

\* Mutant of afterSync: the result of syncToSheet is ignored.
afterSync_IgnoreResult(ok) ==
    /\ pc = "sync"
    /\ UNCHANGED <<storage, activeProfile, books, deleteConfirmId, lastCall>>
    /\ syncStatuses' = setStatus(syncStatuses, isbn, "synced")
    /\ notice' = ""
    /\ release

\* handleISBN from the moment syncToSheet settles: ok is false iff fetch threw.
afterSync(ok) ==
    /\ pc = "sync"
    /\ UNCHANGED <<storage, activeProfile, books, deleteConfirmId, lastCall>>
    /\ syncStatuses' = setStatus(syncStatuses, isbn, IF ok THEN "synced" ELSE "error")
    /\ notice' = ""
    /\ release

\* ---------------------------------------------------------------- UI actions

\* Mutant of removeBookUI: books is not reloaded after the removal.
removeBookUI_NoReload(code) ==
    /\ code \in IsbnsOf(books)
    /\ activeProfile # null
    /\ removeBook(code, activeProfile.id)
    /\ UNCHANGED books
    /\ syncStatuses' = deleteStatus(syncStatuses, code)
    /\ notice' = ""
    /\ UNCHANGED <<profiles, activeId, nextId, activeProfile, processing,
                   deleteConfirmId, run, lastCall>>

\* The remove button of a rendered book card.
removeBookUI(code) ==
    /\ code \in IsbnsOf(books)
    /\ activeProfile # null
    /\ removeBook(code, activeProfile.id)
    /\ books' = store'[activeProfile.id]
    /\ syncStatuses' = deleteStatus(syncStatuses, code)
    /\ notice' = ""
    /\ UNCHANGED <<profiles, activeId, nextId, activeProfile, processing,
                   deleteConfirmId, run, lastCall>>

\* Mutant of switchProfile: syncStatuses is not reset.
switchProfile_KeepStatuses(id) ==
    /\ id \in ProfileIdsOf(loadProfiles)
    /\ UNCHANGED <<profiles, store, nextId, processing, deleteConfirmId, run, lastCall>>
    /\ notice' = ""
    /\ setActiveId(id)
    /\ activeProfile' = getActiveProfile'
    /\ books' = loadBooks(activeProfile'.id)
    /\ UNCHANGED syncStatuses

\* A click on a library of the dropdown, which lists loadProfiles().
switchProfile(id) ==
    /\ id \in ProfileIdsOf(loadProfiles)
    /\ UNCHANGED <<profiles, store, nextId, processing, deleteConfirmId, run, lastCall>>
    /\ notice' = ""
    /\ setActiveId(id)
    /\ activeProfile' = getActiveProfile'
    /\ books' = loadBooks(activeProfile'.id)
    /\ syncStatuses' = NoStatuses

\* The delete button of a library of the dropdown: the first click arms the
\* confirmation, the second one on the same library deletes.
confirmDelete(id) ==
    /\ id \in ProfileIdsOf(loadProfiles)
    /\ UNCHANGED <<nextId, processing, run, lastCall>>
    /\ notice' = ""
    /\ IF deleteConfirmId = id
       THEN /\ deleteProfile(id)
            /\ activeProfile' = getActiveProfile'
            /\ books' = store'[activeProfile'.id]
            /\ syncStatuses' = NoStatuses
            /\ deleteConfirmId' = NoId
       ELSE /\ deleteConfirmId' = id
            /\ UNCHANGED <<storage, activeProfile, books, syncStatuses>>

\* setTimeout(() => { deleteConfirmId = null; ... }, 3000)
confirmDeleteTimeout ==
    /\ deleteConfirmId # NoId
    /\ deleteConfirmId' = NoId
    /\ notice' = ""
    /\ UNCHANGED <<storage, activeProfile, books, syncStatuses, processing, run, lastCall>>

\* The save button of the profile modal: id is '' (Add Library) or the id
\* openEditProfile put into the form.
saveProfileModal(id, name, settings) ==
    /\ id \in {NoId} \cup ProfileIdsOf(loadProfiles)
    /\ UNCHANGED <<store, syncStatuses, processing, deleteConfirmId, run, lastCall>>
    /\ notice' = ""
    /\ IF id # NoId
       THEN /\ updateProfile(id, name, settings)
            /\ UNCHANGED <<activeId, nextId>>
            /\ IF activeProfile.id = id
               THEN /\ activeProfile' = getActiveProfile'
                    /\ books' = loadBooks(activeProfile'.id)
               ELSE UNCHANGED <<activeProfile, books>>
       ELSE /\ nextId <= MaxProfiles
            /\ createProfile(name, settings)
            /\ activeProfile' = profiles'[Len(profiles')]
            /\ books' = loadBooks(activeProfile'.id)

\* The save button of the setup dialog's connection tab.
saveSetupConnection(scriptUrl, sheetName) ==
    /\ scriptUrl # ""
    /\ UNCHANGED <<store, syncStatuses, processing, deleteConfirmId, run, lastCall>>
    /\ notice' = ""
    /\ IF activeProfile = null
       THEN /\ nextId <= MaxProfiles
            /\ createProfile(sheetName, [scriptUrl |-> scriptUrl])
            /\ activeProfile' = profiles'[Len(profiles')]
            /\ books' = loadBooks(activeProfile'.id)
       ELSE /\ updateProfile(activeProfile.id, activeProfile.name,
                             [scriptUrl |-> scriptUrl])
            /\ UNCHANGED <<activeId, nextId, books>>
            /\ activeProfile' = getActiveProfile'

\* The clear-all button (shown while books is not empty), confirm() accepted.
clearAll ==
    /\ books # <<>>
    /\ activeProfile # null
    /\ clearBooks(activeProfile.id)
    /\ books' = <<>>
    /\ syncStatuses' = NoStatuses
    /\ notice' = ""
    /\ UNCHANGED <<profiles, activeId, nextId, activeProfile, processing,
                   deleteConfirmId, run, lastCall>>

\* ---------------------------------------------------------------- specification

Settings == [scriptUrl : ScriptUrls]

Next ==
    \/ \E code \in ISBNs : handleISBN(code)
    \/ \E r \in Responses(isbn), now \in Times, full \in BOOLEAN : afterLookup(r, now, full)
    \/ \E ok \in BOOLEAN : afterSync(ok)
    \/ \E code \in ISBNs : removeBookUI(code)
    \/ \E id \in ProfileIds : switchProfile(id)
    \/ \E id \in ProfileIds : confirmDelete(id)
    \/ confirmDeleteTimeout
    \/ \E id \in {NoId} \cup ProfileIds, name \in Names, settings \in Settings :
          saveProfileModal(id, name, settings)
    \/ \E scriptUrl \in ScriptUrls, sheetName \in Names :
          saveSetupConnection(scriptUrl, sheetName)
    \/ clearAll

Spec == Init /\ [][Next]_vars

\* The requests of lookupISBN and syncToSheet settle: a suspended handleISBN is
\* resumed after its await.
FairSpec ==
    /\ Spec
    /\ WF_vars(\E r \in Responses(isbn), now \in Times, full \in BOOLEAN :
                  afterLookup(r, now, full))
    /\ WF_vars(\E ok \in BOOLEAN : afterSync(ok))

\* ---------------------------------------------------------------- entry paths

\* /^c1 c2 ... cn/ : the text starts with one character of each class in turn.
startsWith(text, classes) ==
    /\ Len(text) >= Len(classes)
    /\ \A i \in DOMAIN classes : Chars(text)[i] \in classes[i]

\* \d{n}
digits(n) == [i \in 1..n |-> Digits]

\* Mutant of isbnPattern: the pattern without its two $ anchors.
isbnPattern_NoEnd(text) ==
    \/ startsWith(text, digits(9) \o <<Digits \cup {"X"}>>)
    \/ startsWith(text, digits(13))

\* /^\d{9}[\dX]$|^\d{13}$/.test(text)
isbnPattern(text) ==
    \/ startsWith(text, digits(9) \o <<Digits \cup {"X"}>>) /\ Len(text) = 10
    \/ startsWith(text, digits(13)) /\ Len(text) = 13

RECURSIVE trim(_)
\* String.prototype.trim()
trim(text) ==
    IF text = "" THEN ""
    ELSE IF SubSeq(text, 1, 1) \in Whitespace THEN trim(SubSeq(text, 2, Len(text)))
    ELSE IF SubSeq(text, Len(text), Len(text)) \in Whitespace
         THEN trim(SubSeq(text, 1, Len(text) - 1))
    ELSE text

RECURSIVE removeSeparators(_)
\* .replace(/[-\s]/g, '')
removeSeparators(text) ==
    IF text = "" THEN ""
    ELSE (IF SubSeq(text, 1, 1) \in Whitespace \cup {"-"} THEN "" ELSE SubSeq(text, 1, 1))
         \o removeSeparators(SubSeq(text, 2, Len(text)))

\* What a barcode decodes to, and what is typed into the manual input.
Texts ==
    {"0316769487", "080442957X", "9780134190440",
     "978-0-13-419044-0", " 0316769487\t", "0 8044-2957 X",
     "", " - ", "031676948", "03167694871", "080442957x", "X804429570",
     "978013419044X", "97801341904401", "0316769487a", "ISBN0316769487"}

\* The callback of decodeFromVideoDevice with a result.
onDecode(text) ==
    IF isbnPattern(text) THEN handleISBN(text) ELSE UNCHANGED vars

\* The lookup button (or Enter) of the manual input holding value.
doManualLookup(value) ==
    LET code == removeSeparators(trim(value)) IN
    IF code = "" THEN UNCHANGED vars
    ELSE IF ~ isbnPattern(code)
    THEN /\ notice' = "Please enter a valid 10 or 13 digit ISBN"
         /\ UNCHANGED <<storage, memory, run, lastCall>>
    ELSE handleISBN(code)

NextEntry ==
    \/ \E text \in Texts : onDecode(text)
    \/ \E value \in Texts : doManualLookup(value)
    \/ \E r \in Responses(isbn), now \in Times, full \in BOOLEAN : afterLookup(r, now, full)
    \/ \E ok \in BOOLEAN : afterSync(ok)
    \/ \E code \in IsbnsOf(books) : removeBookUI(code)
    \/ \E scriptUrl \in ScriptUrls, sheetName \in Names :
          saveSetupConnection(scriptUrl, sheetName)

\* One library, set up in the setup dialog, and the two ways an identifier
\* enters the pipeline, fed with any text.
SpecEntry == Init /\ [][NextEntry]_vars

\* ---------------------------------------------------------------- claims on Spec

\* The identifiers a step adds to the collection stored under key k.
AddedTo(k) == IsbnsOf(store'[k]) \ IsbnsOf(store[k])

\* Everything of the program a dropped arrival must leave alone.
program == <<storage, memory, pc, isbn>>

\* C1: single-flight gate. While a run holds the gate, an arriving identifier
\* changes nothing of the program (it is not queued, looked up or persisted),
\* and a step adds at most one record to the Book Store, which is the record
\* of the identifier whose lookup is in flight.
C1_SingleFlightGate ==
    [][/\ processing => \A code \in ISBNs : handleISBN(code) => UNCHANGED program
       /\ store' # store =>
             /\ \A k \in BookKeys :
                   AddedTo(k) \subseteq (IF pc = "lookup" THEN {isbn} ELSE {})
             /\ Cardinality({k \in BookKeys : AddedTo(k) # {}}) <= 1]_vars

\* C1 witness: a lookup is in flight and the gate has dropped a second arrival.
C1_Witness == processing /\ pc = "lookup" /\ dropped

\* C2 (as claimed): a record is only ever added to the collection of the
\* profile that was active when the scan passed the gate.
C2_WriteKeyedByScanStart ==
    [][\A k \in BookKeys : AddedTo(k) # {} => k = scanStartId]_vars

\* C3 (as claimed): a sync that settles while the active profile is not the one
\* it was dispatched under leaves the Sync Status map as it is.
C3_StaleSyncDiscarded ==
    [][(pc = "sync" /\ activeProfile.id # syncStartId /\ \E ok \in BOOLEAN : afterSync(ok))
          => syncStatuses' = syncStatuses]_vars

C5_UniqueIsbn ==
    \A k \in BookKeys : \A i, j \in DOMAIN store[k] :
        store[k][i].isbn = store[k][j].isbn => i = j

\* C5 witness: a collection holds two records while a lookup is pending whose
\* identifier the now active profile already stores.
C5_Witness ==
    /\ \E k \in BookKeys : Len(store[k]) = 2
    /\ pc = "lookup" /\ activeProfile # null /\ isScanned(isbn, activeProfile.id)

\* C6: the confirming click of confirmDelete removes the profile from the list,
\* empties its collection and leaves every other collection as it was.
C6_DeleteIsolated ==
    [][\A id \in ProfileIds : (deleteConfirmId = id /\ confirmDelete(id)) =>
          /\ id \notin ProfileIdsOf(profiles')
          /\ \A i \in DOMAIN profiles' : \E j \in DOMAIN profiles : profiles'[i] = profiles[j]
          /\ Len(profiles') = Len(profiles) - 1
          /\ store'[id] = <<>>
          /\ \A k \in BookKeys \ {id} : store'[k] = store[k]]_vars

\* C6 witness: a profile has been deleted (its id is used up and not listed)
\* while a remaining profile stores books.
C6_Witness ==
    /\ \E id \in ProfileIds : id < nextId /\ id \notin ProfileIdsOf(profiles)
    /\ \E i \in DOMAIN profiles : store[profiles[i].id] # <<>>

\* C7: switchProfile empties the Sync Status map and writes no collection.
C7_SwitchClearsStatuses ==
    [][\A id \in ProfileIds : (activeId' = id /\ switchProfile(id)) =>
          /\ syncStatuses' = NoStatuses
          /\ store' = store]_vars

\* C7 witness: no profile was ever deleted and the active one is not the one
\* created last, so a switch has happened; both profiles store books.
C7_Witness ==
    /\ Len(profiles) >= 2 /\ nextId = Len(profiles) + 1
    /\ activeProfile.id # profiles[Len(profiles)].id
    /\ \A i \in DOMAIN profiles : store[profiles[i].id] # <<>>
    /\ syncStatuses = NoStatuses

\* C12 (as claimed): while the active profile has no sync endpoint, the Sync
\* Status map has no entries.
C12_NoEndpointNoStatuses ==
    (activeProfile = null \/ activeProfile.settings.scriptUrl = "") =>
       syncStatuses = NoStatuses

\* C13: an identifier that arrives while the gate is free and that the active
\* profile's collection already holds, or that arrives while there is no active
\* profile, is rejected with a warning: the pipeline stays idle (no lookup is
\* started), nothing is written to storage and no sync status is set.
C13_DuplicateRejected ==
    [][\A code \in ISBNs :
          (/\ handleISBN(code)
           /\ ~ processing
           /\ activeProfile = null \/ isScanned(code, activeProfile.id))
          => /\ pc' = "idle" /\ ~ processing'
             /\ UNCHANGED <<storage, memory, run>>
             /\ notice' \in {"Already scanned", "Please set up a library first"}]_vars

\* C13 witness: the pipeline has just rejected a duplicate of one of the two
\* records the active profile holds.
C13_Witness ==
    /\ notice = "Already scanned"
    /\ pc = "idle" /\ activeProfile # null /\ Len(store[activeProfile.id]) = 2

\* C14: newest first. A step that adds a record to a collection is the scan's
\* persist step; the new record, which carries the scanned identifier, is the
\* first element of that collection and the records stored before follow it in
\* their previous order. The in-memory list is that collection.
C14_NewestFirst ==
    [][\A k \in BookKeys : AddedTo(k) # {} =>
          /\ pc = "lookup"
          /\ Len(store'[k]) = Len(store[k]) + 1
          /\ Head(store'[k]).isbn = isbn
          /\ Tail(store'[k]) = store[k]
          /\ books' = store'[k]]_vars

\* C14 witness: a scan has just persisted its record in front of an older one
\* (its sync dispatch is not settled yet).
C14_Witness ==
    /\ pc = "sync"
    /\ Len(store[syncStartId]) = 2
    /\ Head(store[syncStartId]).isbn = isbn
    /\ books = store[syncStartId]

\* C15: an exception raised after the gate was taken (activeProfile is null
\* when the lookup settles, or the storage write throws) is caught: the run
\* shows the lookup-failure notice, persists nothing and ends idle, while a run
\* without exception has the record stored. On every path the gate is held
\* exactly while a request of the run is pending, so it is released once the
\* pending requests have settled, and an identifier arriving then is not dropped.
C15_GateReleased ==
    /\ [][/\ (pc = "lookup" /\ pc' # "lookup") =>
                 IF notice' = "Failed to look up ISBN"
                 THEN store' = store /\ pc' = "idle"
                 ELSE activeProfile # null /\ isbn \in IsbnsOf(store'[activeProfile.id])
           /\ (pc = "lookup" /\ pc' # "lookup" /\ activeProfile = null) =>
                 notice' = "Failed to look up ISBN"
           /\ processing' <=> pc' \in {"lookup", "sync"}
           /\ \A code \in ISBNs : (~ processing /\ handleISBN(code)) => ~ dropped']_vars
    /\ (processing ~> ~ processing)

\* C15 witness: a run under an existing profile has just ended by the exception
\* of the storage write, the gate is free and nothing was stored.
C15_Witness ==
    /\ notice = "Failed to look up ISBN"
    /\ ~ processing /\ pc = "idle"
    /\ activeProfile # null /\ \A k \in BookKeys : store[k] = <<>>

\* C17: sync status lifecycle. A dispatch starts only in the persist step of a
\* scan under a profile with an endpoint, with the record stored and the
\* identifier's status set to 'pending'; while it is unsettled the status stays
\* 'pending' unless the statuses are reset (switch, delete, clear) or a book is
\* removed; when it settles the status becomes 'synced' if it returned true and
\* 'error' if not, storage is left as it is (the record stays) and the run
\* ends, so that no second dispatch follows.
C17_SyncLifecycle ==
    [][/\ (pc # "sync" /\ pc' = "sync") =>
             /\ pc = "lookup" /\ isbn' = isbn
             /\ activeProfile.settings.scriptUrl # ""
             /\ isbn \in IsbnsOf(store'[activeProfile.id])
             /\ isbn \in DOMAIN syncStatuses' /\ syncStatuses'[isbn] = "pending"
       /\ (pc = "sync" /\ pc' = "sync" /\ isbn \in DOMAIN syncStatuses) =>
             /\ syncStatuses[isbn] = "pending"
             /\ \/ isbn \in DOMAIN syncStatuses' /\ syncStatuses'[isbn] = "pending"
                \/ syncStatuses' = NoStatuses
                \/ store' # store
       /\ afterSync(TRUE) => syncStatuses' = setStatus(syncStatuses, isbn, "synced")
       /\ afterSync(FALSE) => syncStatuses' = setStatus(syncStatuses, isbn, "error")
       /\ (pc = "sync" /\ pc' # "sync") =>
             (pc' = "idle" /\ ~ processing' /\ store' = store /\ books' = books)]_vars

\* C17 witness: a dispatch has failed; the identifier's status is 'error', its
\* record is still in the active profile's collection and the run has ended.
C17_Witness ==
    /\ pc = "idle" /\ activeProfile # null
    /\ \E code \in DOMAIN syncStatuses :
          syncStatuses[code] = "error" /\ isScanned(code, activeProfile.id)

\* C18: cache coherence. After every handler and every step of a run, the
\* in-memory activeProfile is what getActiveProfile() reads from storage and
\* the in-memory books list is the stored collection of that profile (the
\* empty list when there is none).
C18_CacheCoherent ==
    /\ activeProfile = getActiveProfile
    /\ books = IF activeProfile = null THEN <<>> ELSE loadBooks(activeProfile.id)

\* C18 witness: a lookup is in flight, the active profile is no longer the one
\* the scan started under, and the cached list holds the books of the profile
\* that is active now.
C18_Witness ==
    /\ pc = "lookup" /\ activeProfile # null /\ scanStartId # activeProfile.id
    /\ Len(books) = 2 /\ store[scanStartId] # books

\* C19 (as claimed): every identifier that has a sync status is the isbn of a
\* record in the active profile's stored collection.
C19_StatusesOfStoredBooks ==
    \A code \in DOMAIN syncStatuses :
       activeProfile # null /\ isScanned(code, activeProfile.id)

\* ---------------------------------------------------------------- Profile Store

\* Ids a caller may pass: '' (0), every id createProfile can give, and one
\* that no profile ever has.
AnyIds == 0..(MaxProfiles + 1)

\* Names passed to createProfile and updateProfile directly.
StoreNames == {"Home", "Work"}

called(op, id, book) ==
    lastCall' = [op |-> op, id |-> id, book |-> book, g |-> NoCall.g, o |-> NoCall.o]

callCreateProfile(name, settings) ==
    /\ nextId <= MaxProfiles
    /\ createProfile(name, settings)
    /\ called("createProfile", nextId, NoCall.book)
    /\ UNCHANGED <<store, memory, run, notice>>

callUpdateProfile(id, name, settings) ==
    /\ updateProfile(id, name, settings)
    /\ called("updateProfile", id, NoCall.book)
    /\ UNCHANGED <<activeId, store, nextId, memory, run, notice>>

callDeleteProfile(id) ==
    /\ deleteProfile(id)
    /\ called("deleteProfile", id, NoCall.book)
    /\ UNCHANGED <<nextId, memory, run, notice>>

callSetActiveId(id) ==
    /\ setActiveId(id)
    /\ called("setActiveId", id, NoCall.book)
    /\ UNCHANGED <<profiles, store, nextId, memory, run, notice>>

NextProfiles ==
    \/ \E name \in StoreNames, settings \in Settings : callCreateProfile(name, settings)
    \/ \E id \in AnyIds, name \in StoreNames, settings \in Settings :
          callUpdateProfile(id, name, settings)
    \/ \E id \in AnyIds : callDeleteProfile(id)
    \/ \E id \in AnyIds : callSetActiveId(id)

\* The Profile Store functions called in any order with any arguments.
SpecProfiles == Init /\ [][NextProfiles]_vars

\* ---------------------------------------------------------------- Book Store

\* Every record lookupISBN can resolve to for the identifiers of ISBNs.
BookInputs ==
    {lookupISBN(code, g, o, now) :
        code \in ISBNs, g \in GoogleResponses, o \in OpenLibraryResponses, now \in Times}

\* The book keys the functions are called on.
CalledKeys == 1..MaxKeys

callSaveBook(book, id) ==
    /\ saveBook(book, id)
    /\ called("saveBook", id, book)
    /\ UNCHANGED <<profiles, activeId, nextId, memory, run, notice>>

callRemoveBook(code, id) ==
    /\ removeBook(code, id)
    /\ called("removeBook", id, emptyBook(code, ""))
    /\ UNCHANGED <<profiles, activeId, nextId, memory, run, notice>>

callClearBooks(id) ==
    /\ clearBooks(id)
    /\ called("clearBooks", id, NoCall.book)
    /\ UNCHANGED <<profiles, activeId, nextId, memory, run, notice>>

NextBooks ==
    \/ \E book \in BookInputs, id \in CalledKeys : callSaveBook(book, id)
    \/ \E code \in ISBNs, id \in CalledKeys : callRemoveBook(code, id)
    \/ \E id \in CalledKeys : callClearBooks(id)

\* The Book Store functions called in any order with any arguments.
SpecBooks == Init /\ [][NextBooks]_vars

\* ---------------------------------------------------------------- Metadata Resolver

\* Identifiers lookupISBN is called with: ISBN-10 (with and without the X check
\* character) and ISBN-13, known to a provider or not.
LookupISBNs ==
    ISBNs \cup {"080442957X", "9780306406157", "0000000000", "9999999999999"}

\* Values of new Date().toISOString() seen by these calls.
LookupTimes == Times \cup {"2026-06-30T12:00:00.000Z"}

\* await lookupISBN(code), the providers answering g and o.
callLookupISBN(code, g, o, now) ==
    /\ lastCall' = [op |-> "lookupISBN", id |-> NoId,
                    book |-> lookupISBN(code, g, o, now),
                    g |-> [status |-> g.status, totalItems |-> g.totalItems],
                    o |-> [status |-> o.status, hasKey |-> o.hasKey]]
    /\ isbn' = code
    /\ UNCHANGED <<storage, memory, pc, scanStartId, syncStartId, dropped, notice>>

NextLookup ==
    \E code \in LookupISBNs, g \in GoogleResponses, o \in OpenLibraryResponses,
       now \in LookupTimes : callLookupISBN(code, g, o, now)

\* lookupISBN called with any identifier, whatever the providers answer.
SpecLookup == Init /\ [][NextLookup]_vars

\* ---------------------------------------------------------------- claims on SpecProfiles

\* The listed profiles whose id is the stored active id.
ActiveMatches == {i \in DOMAIN profiles : profiles[i].id = activeId}

\* C8: getActiveProfile is the listed profile whose id is the stored active id
\* when there is one, else the first profile of the list, and it is null exactly
\* when the list is empty: an active profile exists iff a profile exists.
C8_GetActive ==
    /\ ActiveMatches # {} =>
          \E i \in ActiveMatches : getActiveProfile = profiles[i]
    /\ (ActiveMatches = {} /\ profiles # <<>>) => getActiveProfile = profiles[1]
    /\ getActiveProfile = null <=> profiles = <<>>

\* C8 witness: two profiles are listed, the stored active id is set and is the
\* id of none of them, and a delete or setActiveId call got there.
C8_Witness ==
    /\ Len(profiles) >= 2
    /\ activeId # NoId /\ ActiveMatches = {}
    /\ lastCall.op \in {"deleteProfile", "setActiveId"}

\* C9: createProfile appends the new profile (fresh id, the given name and
\* settings) to the list it found, and getActiveProfile then returns it.
C9_CreateAppendsAndActivates ==
    [][\A name \in StoreNames, settings \in Settings :
          callCreateProfile(name, settings) =>
             LET p == profiles'[Len(profiles')] IN
             /\ profiles' = Append(profiles, p)
             /\ p.id \notin ProfileIdsOf(profiles)
             /\ p.name = name /\ p.settings = settings
             /\ getActiveProfile' = p]_vars

\* C9 witness: createProfile was just called while another profile was listed.
C9_Witness ==
    /\ lastCall.op = "createProfile"
    /\ Len(profiles) >= 2
    /\ getActiveProfile.id = lastCall.id

\* ---------------------------------------------------------------- claims on SpecBooks

\* The positions of the records with identifier code in the collection under id.
Holding(code, id) == {i \in DOMAIN store[id] : store[id][i].isbn = code}

\* C10: saveBook is idempotent per key. After saveBook(book, id) the collection
\* under id contains book.isbn exactly once; if it contained it before, the call
\* changes nothing (the first record's fields and the order stay); no call
\* touches another key.
C10_AddIdempotent ==
    [][\A book \in BookInputs, id \in CalledKeys : callSaveBook(book, id) =>
          /\ isScanned(book.isbn, id)'
          /\ Cardinality(Holding(book.isbn, id)') = 1
          /\ isScanned(book.isbn, id) => store' = store
          /\ \A k \in BookKeys \ {id} : store'[k] = store[k]]_vars

\* C10 witness: saveBook was just called with a record whose identifier the
\* collection already held with other fields, next to a second record.
C10_Witness ==
    /\ lastCall.op = "saveBook"
    /\ Len(store[lastCall.id]) = 2
    /\ \E i \in Holding(lastCall.book.isbn, lastCall.id) :
          store[lastCall.id][i] # lastCall.book

\* ---------------------------------------------------------------- claims on SpecLookup

\* The fields of a book record.
BookFields ==
    {"isbn", "title", "authors", "publisher", "publishedDate", "pageCount",
     "categories", "description", "coverUrl", "scannedAt"}

\* C11: whatever the two providers answer (match, no match or exception for the
\* first, data, no data or exception for the second), lookupISBN(i) resolves to
\* a complete record (every field a defined string) whose isbn is i; when
\* neither provider yields data, every field other than isbn and scannedAt is
\* the empty string.
C11_ResolveTotal ==
    lastCall.op = "lookupISBN" =>
       LET b == lastCall.book
           googleYields == lastCall.g.status = "ok" /\ lastCall.g.totalItems > 0
           openLibraryYields == lastCall.o.status = "ok" /\ lastCall.o.hasKey
       IN /\ DOMAIN b = BookFields
          /\ \A f \in BookFields : b[f] \in STRING /\ b[f] # Missing
          /\ b.isbn = isbn
          /\ b.scannedAt \in LookupTimes
          /\ (~ googleYields /\ ~ openLibraryYields) =>
                \A f \in BookFields \ {"isbn", "scannedAt"} : b[f] = ""

\* C11 witness: both requests threw and the call resolved to the record that
\* holds the X-terminated identifier and nothing else.
C11_Witness ==
    /\ lastCall.op = "lookupISBN"
    /\ lastCall.g.status = "throw" /\ lastCall.o.status = "throw"
    /\ lastCall.book.isbn = "080442957X" /\ lastCall.book.title = ""

\* ---------------------------------------------------------------- claims on SpecEntry

\* Exactly nine digits followed by a digit or X, or exactly thirteen digits.
TenOrThirteen(text) ==
    LET c == Chars(text)
        n == Cardinality({i \in DOMAIN c : c[i] \in Digits})
    IN \/ Len(text) = 13 /\ n = 13
       \/ Len(text) = 10 /\ n = 10
       \/ Len(text) = 10 /\ n = 9 /\ c[10] = "X"

\* The texts the two entry paths test: what was decoded, what was typed
\* without its separators.
Tested == Texts \cup {removeSeparators(trim(value)) : value \in Texts}

\* C16: the test of the entry paths accepts a text iff it is nine digits
\* followed by a digit or X, or thirteen digits; only a text that passes it
\* (for the manual input: once hyphens and whitespace are stripped) enters the
\* pipeline, so the identifier of every run and of every persisted record
\* satisfies it, whatever was decoded or typed.
C16_OnlyValidEnters ==
    /\ \A text \in Tested : isbnPattern(text) <=> TenOrThirteen(text)
    /\ pc # "idle" => (isbn \in Tested /\ TenOrThirteen(isbn))
    /\ \A k \in BookKeys : \A i \in DOMAIN store[k] : TenOrThirteen(store[k][i].isbn)
    /\ \A code \in DOMAIN syncStatuses : TenOrThirteen(code)

\* C16 witness: the record of an identifier typed with separators is stored
\* after the X-terminated one, and an invalid value has just been turned away.
C16_Witness ==
    /\ notice = "Please enter a valid 10 or 13 digit ISBN"
    /\ activeProfile # null
    /\ IsbnsOf(store[activeProfile.id]) = {"080442957X", "9780134190440"}

====
